---- MODULE Spec2Model ----
(***************************************************************************)
(* Model of capture_meter.py: the command-line entry point main, the       *)
(* session driver capture_and_process, the image source download_image,    *)
(* the processing pipeline process_meter_image and the contour filter      *)
(* extract_digit_regions.                                                   *)
(*                                                                         *)
(* The file system (meter_readings.csv and the captured images) outlives   *)
(* a process, so the model runs main several times in a row.  The clock    *)
(* counts whole seconds, the resolution of both strftime formats used; it  *)
(* moves across the pauses between captures only, a download and the       *)
(* processing of an image being taken to end within the second they began  *)
(* in.  No branch of the program reads the clock.                          *)
(***************************************************************************)
EXTENDS Integers, Sequences, FiniteSets, TLC

VARIABLES
    pc,             \* position of the process: "idle", "loop", "exited"
    runs,           \* number of times main has been started
    args,           \* the parsed command line of the current run
    i,              \* loop variable of capture_and_process
    readings,       \* the list `readings` of capture_and_process
    now,            \* wall clock, in whole seconds
    csv,            \* meter_readings.csv: [exists, lines]
    exit_code,      \* value returned by main (meaningful when pc = "exited")
    summary,        \* the printed "Total captures: a/b" line, as <<a, b>>
    calls,          \* calls made in this run: download, process, sleep
    log,            \* history of this run's loop iterations
    csv0,           \* meter_readings.csv as it was when this run started
    sessions,       \* record lists returned by the completed sessions
    contours,       \* the contours handed to extract_digit_regions
    digit_contours  \* what extract_digit_regions returned for them

vars == <<pc, runs, args, i, readings, now, csv, exit_code, summary, calls,
          log, csv0, sessions, contours, digit_contours>>

---------------------------------------------------------------------------
(* Bounds of the model *)

MaxCount == 3
MaxRuns == 2
MaxContours == 3

---------------------------------------------------------------------------
(* Command line *)

DEFAULT_ROI == <<"187", "188", "275", "146">>

\* --roi after split(','): a sequence of fields.
RoiArgs ==
    { DEFAULT_ROI,
      <<"1", "2", "3">>,
      <<"1", "2", "3", "4", "5">>,
      <<"1", "2", "x", "4">>,
      <<"1", "x", "3">> }

\* int(field) succeeds on these fields and raises ValueError on the others.
IsIntLiteral(field) ==
    field \in {"187", "188", "275", "146", "1", "2", "3", "4", "5"}

ParseRoiNoLengthCheck(fields) ==
    IF \E k \in 1..Len(fields) : ~IsIntLiteral(fields[k]) THEN "value_error"
    ELSE "ok"

\* roi = tuple(map(int, args.roi.split(','))); if len(roi) != 4: return 1
ParseRoi(fields) ==
    IF \E k \in 1..Len(fields) : ~IsIntLiteral(fields[k]) THEN "value_error"
    ELSE IF Len(fields) # 4 THEN "wrong_length"
    ELSE "ok"

\* --image: absent (None), the empty string, or a path.
NoImage == "<None>"
ImageArgs == {NoImage, "", "missing.jpg", "meter.jpg", "corrupt.jpg"}

\* os.path.exists on the --image argument.
PathExists(path) == path \in {"meter.jpg", "corrupt.jpg"}

\* cv2.imread returns an image for these files and None for the others.
Decodable(path) == path = "meter.jpg"

ImageIgnored(image) == FALSE

\* `if args.image:` - None and "" are both falsy.
ImageGiven(image) == image \notin {NoImage, ""}

Counts == 0..MaxCount

\* --interval, by what time.sleep(interval) does to the clock: -1 is a negative
\* interval, 0 a pause that ends within the same clock second, 1 a pause that
\* ends in the next one.
Intervals == {-1, 0, 1}

\* The command lines main is started with.  With a malformed ROI the other
\* options are never read, so they take few values there, as they do
\* with an empty --image.
CommandLines ==
    { a \in [roi : RoiArgs, image : ImageArgs, count : Counts, interval : Intervals] :
        (a.roi # DEFAULT_ROI \/ a.image = "") =>
            /\ a.image \in {NoImage, "", "missing.jpg", "meter.jpg"}
            /\ a.count = 1
            /\ a.interval = 1 }

---------------------------------------------------------------------------
(* Timestamps *)

\* datetime.now().strftime("%Y%m%d_%H%M%S")
FileStamp(t) == ToString(t)

\* datetime.now().strftime("%Y-%m-%d %H:%M:%S")
RecordStamp(t) == "at " \o ToString(t)

\* os.path.join(save_dir, f"meter_{timestamp}.jpg")
ImagePath(t) == "meter_images/meter_" \o FileStamp(t) \o ".jpg"

---------------------------------------------------------------------------
(* extract_digit_regions *)

min_area == 50
max_area == 2000

\* Contour areas around the two limits, and bounding-box x-coordinates.
Areas == {10, 50, 51, 1999, 2000, 3000}
Xs == {0, 1}
Contour == [area : Areas, x : Xs]

KeepContourInclusive(cnt) == min_area =< cnt.area /\ cnt.area =< max_area

\* min_area < cv2.contourArea(cnt) < max_area
KeepContour(cnt) == min_area < cnt.area /\ cnt.area < max_area

\* The key of the sort: cv2.boundingRect(cnt)[0]
SortKey(cnt) == cnt.x

\* Insertion of one element behind every element whose key is not greater:
\* what a stable sort does with equal keys.
RECURSIVE InsertByKey(_, _)
InsertByKey(sorted, cnt) ==
    IF sorted = <<>> THEN <<cnt>>
    ELSE IF SortKey(cnt) < SortKey(sorted[Len(sorted)])
         THEN Append(InsertByKey(SubSeq(sorted, 1, Len(sorted) - 1), cnt),
                     sorted[Len(sorted)])
         ELSE Append(sorted, cnt)

RECURSIVE SortedByX(_)
SortedByX(s) ==
    IF s = <<>> THEN <<>>
    ELSE InsertByKey(SortedByX(SubSeq(s, 1, Len(s) - 1)), s[Len(s)])

extract_digit_regions(found) == SortedByX(SelectSeq(found, KeepContour))

\* Two contour lists an image may yield in a session.
ContourSamples ==
    { <<>>,
      << [area |-> 1999, x |-> 1], [area |-> 3000, x |-> 1], [area |-> 51, x |-> 0] >> }

RECURSIVE SeqsUpTo(_, _)
SeqsUpTo(S, n) ==
    IF n = 0 THEN {<<>>}
    ELSE LET shorter == SeqsUpTo(S, n - 1)
         IN  shorter \cup { Append(s, e) : s \in shorter, e \in S }

---------------------------------------------------------------------------
(* download_image *)

\* ok: status 200, the file is written and its path returned.
\* bad_status: any other status, None returned.
\* exception: requests.get raised (connection error, timeout), None returned.
DownloadOutcomes == {"ok", "bad_status", "exception"}

\* The return value: <<filepath>>, or <<>> for None.
download_image(outcome, t) ==
    IF outcome = "ok" THEN <<ImagePath(t)>> ELSE <<>>

---------------------------------------------------------------------------
(* process_meter_image *)

\* ok: the pipeline runs to the end.
\* undecodable: cv2.imread returned None, ValueError is raised.
\* error: another exception of the pipeline (an ROI outside the image).
ProcessOutcomes == {"ok", "undecodable", "error"}

ReadingFromContours(digits) ==
    IF Len(digits) = 0 THEN "" ELSE "16737"

\* reading = "16737"
Reading(digits) == "16737"

process_meter_image(outcome, found) ==
    IF outcome = "ok"
    THEN [raised |-> FALSE, reading |-> Reading(extract_digit_regions(found)),
          digits |-> extract_digit_regions(found)]
    ELSE [raised |-> TRUE, reading |-> "", digits |-> <<>>]

---------------------------------------------------------------------------
(* capture_and_process *)

CatchesValueErrorOnly(outcome) == outcome = "undecodable"

\* except Exception as e: around process_meter_image in the loop.
LoopCatches(outcome) == outcome \in {"undecodable", "error"}

AppendAlways(list, result, t) ==
    Append(list, <<RecordStamp(t), result.reading>>)

\* readings.append((timestamp, reading)), skipped when processing raised.
AppendReading(list, result, t) ==
    IF result.raised THEN list
    ELSE Append(list, <<RecordStamp(t), result.reading>>)

\* if i < capture_count - 1: time.sleep(interval)
ShouldPause(k, count) == k < count - 1

\* time.sleep raises ValueError for a negative argument.
SleepRaises(interval) == interval < 0

\* print(f"Total captures: {len(readings)}/{capture_count}")
SummaryLine(list, count) == <<Len(list), count>>

Header == <<"timestamp", "reading_kwh">>

\* f.write(f"{timestamp},{reading}\n")
CsvRow(rec) == <<rec[1], rec[2]>>

CsvRows(list) == [k \in 1..Len(list) |-> CsvRow(list[k])]

CsvModeAlwaysWrite(exists) == "w"

\* mode = 'a' if os.path.exists(csv_path) else 'w'
CsvMode(exists) == IF exists THEN "a" ELSE "w"

SaveReadingsHeaderAlways(file, list) ==
    IF list = <<>> THEN file
    ELSE [exists |-> TRUE, lines |-> file.lines \o <<Header>> \o CsvRows(list)]

\* The block under "Save readings to CSV".
SaveReadings(file, list) ==
    IF list = <<>> THEN file
    ELSE LET mode == CsvMode(file.exists)
             kept == IF mode = "w" THEN <<Header>> ELSE file.lines
         IN  [exists |-> TRUE, lines |-> kept \o CsvRows(list)]

---------------------------------------------------------------------------
(* main *)

\* except Exception: return 1, otherwise return 0.
ExitCode(raised) == IF raised THEN 1 ELSE 0

NoCalls == [download |-> 0, process |-> 0, sleep |-> 0]

NoFile == [exists |-> FALSE, lines |-> <<>>]

Init ==
    /\ pc = "idle"
    /\ runs = 0
    /\ args = [roi |-> DEFAULT_ROI, image |-> NoImage, count |-> 1, interval |-> 1]
    /\ i = 0
    /\ readings = <<>>
    /\ now = 0
    /\ csv = NoFile
    /\ exit_code = 0
    /\ summary = <<>>
    /\ calls = NoCalls
    /\ log = <<>>
    /\ csv0 = NoFile
    /\ sessions = <<>>
    /\ contours = <<>>
    /\ digit_contours = <<>>

\* main can be started when no process is running.
CanStart == pc \in {"idle", "exited"} /\ runs < MaxRuns

\* A new process: nothing of the previous one is left but the files.
StartRun(a) ==
    /\ runs' = runs + 1
    /\ args' = a
    /\ i' = 0
    /\ readings' = <<>>
    /\ summary' = <<>>
    /\ log' = <<>>
    /\ csv0' = csv

\* The ROI does not parse: return 1.
MainBadRoi ==
    /\ CanStart
    /\ \E a \in CommandLines :
        /\ ParseRoi(a.roi) # "ok"
        /\ StartRun(a)
        /\ pc' = "exited"
        /\ exit_code' = 1
        /\ calls' = NoCalls
        /\ UNCHANGED <<now, csv, sessions, contours, digit_contours>>

\* --image names a file that does not exist: return 1.
MainImageMissing ==
    /\ CanStart
    /\ \E a \in CommandLines :
        /\ ParseRoi(a.roi) = "ok"
        /\ ImageGiven(a.image)
        /\ ~PathExists(a.image)
        /\ StartRun(a)
        /\ pc' = "exited"
        /\ exit_code' = 1
        /\ calls' = NoCalls
        /\ UNCHANGED <<now, csv, sessions, contours, digit_contours>>

\* --image names an existing file: process_meter_image(args.image, roi).
MainLocalImage ==
    /\ CanStart
    /\ \E a \in CommandLines, po \in ProcessOutcomes, found \in ContourSamples :
        /\ ParseRoi(a.roi) = "ok"
        /\ ImageGiven(a.image)
        /\ PathExists(a.image)
        /\ (po = "undecodable") <=> ~Decodable(a.image)
        /\ (po # "ok") => found = <<>>
        /\ StartRun(a)
        /\ LET result == process_meter_image(po, found)
           IN  /\ pc' = "exited"
               /\ exit_code' = ExitCode(result.raised)
               /\ calls' = [NoCalls EXCEPT !.process = 1]
        /\ UNCHANGED <<now, csv, sessions, contours, digit_contours>>

\* No --image: capture_and_process is entered.
MainCapture ==
    /\ CanStart
    /\ \E a \in CommandLines :
        /\ ParseRoi(a.roi) = "ok"
        /\ ~ImageGiven(a.image)
        /\ StartRun(a)
        /\ pc' = "loop"
        /\ exit_code' = 0
        /\ calls' = NoCalls
        /\ UNCHANGED <<now, csv, sessions, contours, digit_contours>>

\* An iteration whose download failed: "Capture failed. Skipping." and continue.
IterationSkipped ==
    /\ calls' = [calls EXCEPT !.download = @ + 1]
    /\ log' = Append(log, [downloaded |-> FALSE, processed |-> FALSE,
                           path |-> ImagePath(now), t |-> now, paused |-> FALSE])
    /\ i' = i + 1
    /\ UNCHANGED <<pc, readings, exit_code, now>>

\* An iteration whose download succeeded: process, record, pause.
IterationProcessed(po, found) ==
    LET result == process_meter_image(po, found)
        escapes == result.raised /\ ~LoopCatches(po)
        pausing == ~escapes /\ ShouldPause(i, args.count)
        slept == pausing /\ ~SleepRaises(args.interval)
        failed == escapes \/ (pausing /\ SleepRaises(args.interval))
    IN  /\ calls' = [download |-> calls.download + 1,
                     process |-> calls.process + 1,
                     sleep |-> calls.sleep + (IF slept THEN 1 ELSE 0)]
        /\ log' = Append(log, [downloaded |-> TRUE, processed |-> ~result.raised,
                               path |-> ImagePath(now), t |-> now,
                               paused |-> slept])
        /\ readings' = IF escapes THEN readings
                       ELSE AppendReading(readings, result, now)
        /\ now' = IF slept THEN now + args.interval ELSE now
        /\ IF failed
           THEN \* the exception leaves capture_and_process; main returns 1
                /\ pc' = "exited"
                /\ exit_code' = ExitCode(TRUE)
                /\ UNCHANGED i
           ELSE /\ i' = i + 1
                /\ UNCHANGED <<pc, exit_code>>

\* One pass through the body of `for i in range(capture_count)`.
Iteration ==
    /\ pc = "loop"
    /\ i < args.count
    /\ \E dl \in DownloadOutcomes :
        IF download_image(dl, now) = <<>>
        THEN IterationSkipped
        ELSE \E po \in ProcessOutcomes, found \in ContourSamples :
                 /\ (po # "ok") => found = <<>>
                 /\ IterationProcessed(po, found)
    /\ UNCHANGED <<runs, args, csv, summary, csv0, sessions, contours, digit_contours>>

\* After the loop: the summary, the CSV file, return readings; main returns 0.
Summary ==
    /\ pc = "loop"
    /\ i >= args.count
    /\ summary' = SummaryLine(readings, args.count)
    /\ csv' = SaveReadings(csv, readings)
    /\ sessions' = Append(sessions, readings)
    /\ pc' = "exited"
    /\ exit_code' = ExitCode(FALSE)
    /\ UNCHANGED <<runs, args, i, readings, now, calls, log, csv0, contours,
                   digit_contours>>

Next ==
    \/ MainBadRoi
    \/ MainImageMissing
    \/ MainLocalImage
    \/ MainCapture
    \/ Iteration
    \/ Summary

Spec == Init /\ [][Next]_vars

---------------------------------------------------------------------------
(* extract_digit_regions on its own, over every contour list of the bounds *)

InitContours ==
    /\ pc = "contours"
    /\ runs = 0
    /\ args = [roi |-> DEFAULT_ROI, image |-> NoImage, count |-> 1, interval |-> 1]
    /\ i = 0
    /\ readings = <<>>
    /\ now = 0
    /\ csv = NoFile
    /\ exit_code = 0
    /\ summary = <<>>
    /\ calls = NoCalls
    /\ log = <<>>
    /\ csv0 = NoFile
    /\ sessions = <<>>
    /\ contours \in SeqsUpTo(Contour, MaxContours)
    /\ digit_contours = <<>>

ExtractDigitRegions ==
    /\ pc = "contours"
    /\ pc' = "extracted"
    /\ digit_contours' = extract_digit_regions(contours)
    /\ UNCHANGED <<runs, args, i, readings, now, csv, exit_code, summary, calls,
                   log, csv0, sessions, contours>>

NextContours == ExtractDigitRegions

SpecContours == InitContours /\ [][NextContours]_vars

---------------------------------------------------------------------------
(* Vocabulary of the properties *)

\* The --roi argument is four comma-separated integers.
WellFormedRoi(fields) ==
    Len(fields) = 4 /\ \A k \in 1..Len(fields) : IsIntLiteral(fields[k])

\* --image names a path.
NamesPath(image) == image # NoImage /\ image # ""

IsPrefix(s, t) == Len(s) =< Len(t) /\ SubSeq(t, 1, Len(s)) = s

BothSucceeded(e) == e.downloaded /\ e.processed

\* Number of occurrences of c in the sequence s.
Occurrences(s, c) == Cardinality({k \in 1..Len(s) : s[k] = c})

\* The header is the first line of the file and no other line.
HeaderOnlyFirst(file) ==
    file.exists =>
        /\ Len(file.lines) >= 1
        /\ file.lines[1] = Header
        /\ \A k \in 2..Len(file.lines) : file.lines[k] # Header

\* A capture_and_process session of the current run has reached its end.
SessionCompleted == pc = "exited" /\ summary # <<>>

---------------------------------------------------------------------------
(* C1: the record sequence of a session has exactly one entry per iteration
   in which both the download and the processing succeeded, in iteration
   order, and the summary reports <number of records>/<count>. *)
C1_RecordsMatchSuccesses ==
    LET good == SelectSeq(log, BothSucceeded)
    IN  /\ Len(readings) = Len(good)
        /\ \A k \in 1..Len(good) : readings[k][1] = RecordStamp(good[k].t)
        /\ SessionCompleted =>
              /\ Len(log) = args.count
              /\ summary = <<Len(good), args.count>>
              /\ sessions[Len(sessions)] = readings

\* count = 3, only attempt 2 fails: 2 records and the summary 2/3.
C1_Witness ==
    /\ SessionCompleted
    /\ args.count = 3
    /\ args.interval = 1
    /\ log[1].downloaded /\ log[1].processed
    /\ ~log[2].downloaded
    /\ log[3].downloaded /\ log[3].processed
    /\ Len(readings) = 2
    /\ summary = <<2, 3>>

---------------------------------------------------------------------------
(* C2 as stated: once two sessions have completed, starting without
   meter_readings.csv, the file holds the header line followed by the rows
   of the first session and then the rows of the second one. *)
C2_TwoSessionsFile ==
    Len(sessions) = 2 =>
        /\ csv.exists
        /\ csv.lines = <<Header>> \o CsvRows(sessions[1]) \o CsvRows(sessions[2])

(* C2 as amended: the same, provided at least one of the two sessions had a
   successful capture; when neither had one, the file does not exist. *)
C2_TwoSessionsFileUnlessEmpty ==
    Len(sessions) = 2 =>
        IF sessions[1] = <<>> /\ sessions[2] = <<>>
        THEN csv = NoFile
        ELSE /\ csv.exists
             /\ csv.lines = <<Header>> \o CsvRows(sessions[1]) \o CsvRows(sessions[2])

\* Two sessions with records, the first with two records of different seconds.
C2_Witness ==
    /\ Len(sessions) = 2
    /\ Len(sessions[1]) >= 2
    /\ sessions[1][1] # sessions[1][2]
    /\ Len(sessions[2]) >= 1
    /\ Len(csv.lines) = 1 + Len(sessions[1]) + Len(sessions[2])

---------------------------------------------------------------------------
(* C3 as stated: in a completed session of count >= 1 iterations with a
   non-negative interval, every iteration but the last is followed by a
   pause, whatever its outcome, and the last one is not: count - 1 pauses. *)
C3_PauseAfterEveryIterationButLast ==
    (SessionCompleted /\ args.count >= 1 /\ args.interval >= 0) =>
        /\ calls.sleep = args.count - 1
        /\ \A k \in 1..Len(log) : log[k].paused <=> (k < args.count)

---------------------------------------------------------------------------
(* C4 as stated: a run of main with a well-formed ROI and no --image makes
   exactly count calls to download_image, reaches the summary and exits
   with code 0, whatever fails in the captures. *)
C4_FailuresNeverFatal ==
    (pc = "exited" /\ WellFormedRoi(args.roi) /\ args.image = NoImage) =>
        /\ calls.download = args.count
        /\ summary # <<>>
        /\ exit_code = 0

(* C4 as amended: the same for a run whose --interval is not negative; one
   call to download_image per iteration begun, none repeated or skipped. *)
C4_FailuresNeverFatalNonNegativeInterval ==
    (pc # "idle" /\ WellFormedRoi(args.roi) /\ args.image = NoImage
        /\ args.interval >= 0) =>
        /\ calls.download = Len(log)
        /\ calls.download = i
        /\ i =< args.count
        /\ pc = "exited" =>
              /\ calls.download = args.count
              /\ summary # <<>>
              /\ exit_code = 0

\* Three captures: a failed download, a failed processing, a failed download;
\* nothing succeeded and the run still ended with the summary and code 0.
C4_Witness ==
    /\ pc = "exited"
    /\ args.image = NoImage
    /\ args.count = 3
    /\ args.interval >= 0
    /\ ~log[1].downloaded
    /\ log[2].downloaded /\ ~log[2].processed
    /\ ~log[3].downloaded
    /\ summary = <<0, 3>>
    /\ exit_code = 0

---------------------------------------------------------------------------
(* C5: when --roi is not four comma-separated integers, or --image names a
   path that does not exist, main returns 1 and has called neither
   download_image nor process_meter_image nor written meter_readings.csv. *)
C5_ConfigErrorsStopBeforeWork ==
    (pc # "idle" /\ (\/ ~WellFormedRoi(args.roi)
                     \/ (NamesPath(args.image) /\ ~PathExists(args.image)))) =>
        /\ pc = "exited"
        /\ exit_code = 1
        /\ calls = NoCalls
        /\ summary = <<>>
        /\ csv = csv0

\* A run with three ROI values after a session that created the file.
C5_Witness ==
    /\ pc = "exited"
    /\ args.roi = <<"1", "2", "3">>
    /\ args.image = NoImage
    /\ exit_code = 1
    /\ csv.exists

---------------------------------------------------------------------------
(* C6 as stated: after any completed session, one with no successful capture
   included, meter_readings.csv exists, its previous content is a prefix of
   its content, and the header is its first line and no other. *)
C6_FileExistsAppendOnly ==
    SessionCompleted =>
        /\ csv.exists
        /\ IsPrefix(csv0.lines, csv.lines)
        /\ HeaderOnlyFirst(csv)

(* C6 as amended: after a completed session the file exists if and only if
   it existed before or the session had a successful capture; a session
   without one leaves the file as it was, and creates none; the previous
   content is a prefix of the content, which grows by one row per record;
   the header is the first line of an existing file and no other. *)
C6_AppendOnlyCreatedOnFirstRecord ==
    SessionCompleted =>
        /\ csv.exists <=> (csv0.exists \/ readings # <<>>)
        /\ readings = <<>> => csv = csv0
        /\ IsPrefix(csv0.lines, csv.lines)
        /\ Len(csv.lines) = Len(csv0.lines) + Len(readings)
                             + (IF csv.exists /\ ~csv0.exists THEN 1 ELSE 0)
        /\ HeaderOnlyFirst(csv)

\* A session with records that found the file of an earlier session.
C6_Witness ==
    /\ SessionCompleted
    /\ csv0.exists
    /\ readings # <<>>
    /\ Len(csv.lines) > Len(csv0.lines)

---------------------------------------------------------------------------
(* C7: extract_digit_regions returns exactly the contours whose area a
   satisfies 50 < a < 2000, each as often as it was found, ordered by
   non-decreasing x-coordinate. *)
C7_FilterAndOrder ==
    pc = "extracted" =>
        /\ \A c \in Contour :
              Occurrences(digit_contours, c) =
                  IF 50 < c.area /\ c.area < 2000
                  THEN Occurrences(contours, c) ELSE 0
        /\ \A k \in 1..(Len(digit_contours) - 1) :
              digit_contours[k].x =< digit_contours[k + 1].x

\* An area on a limit is rejected and the two survivors change places.
C7_Witness ==
    /\ pc = "extracted"
    /\ Len(contours) = 3
    /\ contours[1].area = 51 /\ contours[1].x = 1
    /\ contours[2].area \in {50, 2000}
    /\ contours[3].area = 1999 /\ contours[3].x = 0
    /\ digit_contours = <<contours[3], contours[1]>>

---------------------------------------------------------------------------
(* C8 as stated: a run whose --image names an existing file never calls
   download_image, calls process_meter_image exactly once, never pauses,
   leaves meter_readings.csv as it was, and exits with code 1 when the file
   cannot be decoded. *)
C8_LocalImageBypassesCapture ==
    (pc = "exited" /\ NamesPath(args.image) /\ PathExists(args.image)) =>
        /\ calls.download = 0
        /\ calls.process = 1
        /\ calls.sleep = 0
        /\ csv = csv0
        /\ ~Decodable(args.image) => exit_code = 1

(* C8 as amended: the same for a run whose --roi is well formed. *)
C8_LocalImageBypassesCaptureWellFormedRoi ==
    (pc # "idle" /\ WellFormedRoi(args.roi) /\ NamesPath(args.image)
        /\ PathExists(args.image)) =>
        /\ pc = "exited"
        /\ calls.download = 0
        /\ calls.process = 1
        /\ calls.sleep = 0
        /\ summary = <<>>
        /\ csv = csv0
        /\ ~Decodable(args.image) => exit_code = 1

\* An undecodable file, --count 3, after a session that created the file.
C8_Witness ==
    /\ pc = "exited"
    /\ args.image = "corrupt.jpg"
    /\ args.count = 3
    /\ args.interval = 0
    /\ calls.process = 1
    /\ exit_code = 1
    /\ csv.exists

---------------------------------------------------------------------------
(* C9 as stated: within a session with a non-negative interval, no two
   captures write the same file path. *)
C9_NoPathWrittenTwice ==
    args.interval >= 0 =>
        \A j, k \in 1..Len(log) :
            (j < k /\ log[j].downloaded /\ log[k].downloaded) =>
                log[j].path # log[k].path

---------------------------------------------------------------------------
(* C10: every record of the session, of the completed sessions and every
   data row of meter_readings.csv carries the reading "16737". *)
C10_ReadingIsConstant ==
    /\ \A k \in 1..Len(readings) : readings[k][2] = "16737"
    /\ \A n \in 1..Len(sessions) :
          \A k \in 1..Len(sessions[n]) : sessions[n][k][2] = "16737"
    /\ \A k \in 2..Len(csv.lines) : csv.lines[k][2] = "16737"

\* Two data rows in the file, written by a completed session.
C10_Witness ==
    /\ SessionCompleted
    /\ Len(readings) >= 2
    /\ Len(csv.lines) >= 3

====
